---------------------------- MODULE Spec2Model ----------------------------
(***************************************************************************)
(* A model of scraper.py: the RAWG "suggestions" scraper that reads game   *)
(* titles from the "Jogos" sheet, scrapes one suggestions page per game    *)
(* and appends the filtered records to the "Jogos Similares" sheet.        *)
(*                                                                         *)
(* A Python str is a sequence of tokens. Titles are sequences of           *)
(* characters, because the code looks inside them (lower, strip, re.sub);  *)
(* the other cells are sequences of words the code only copies or joins.   *)
(***************************************************************************)
EXTENDS Integers, Sequences, FiniteSets, TLC

(***************************************************************************)
(* Bounds of the model.                                                    *)
(***************************************************************************)
MaxRows == 2        \* rows of the "Jogos" input sheet
MaxPattern == 2     \* length of the card pattern a rich page repeats
MaxCards == 2       \* cards a page shows before the first scroll
MaxStable == 2      \* scroll cycles after which a page's height is stable
MaxRuns == 2        \* consecutive runs of main() against the same sheets
MaxTitleLen == 2    \* characters of a title drawn from an alphabet

(***************************************************************************)
(* Strings.                                                                *)
(***************************************************************************)
Range(s) == {s[i] : i \in 1..Len(s)}

Whitespace == {" "}

UpperLetters ==
    <<"A", "B", "C", "D", "E", "F", "G", "H", "I", "J", "K", "L", "M",
      "N", "O", "P", "Q", "R", "S", "T", "U", "V", "W", "X", "Y", "Z">>

LowerLetters ==
    <<"a", "b", "c", "d", "e", "f", "g", "h", "i", "j", "k", "l", "m",
      "n", "o", "p", "q", "r", "s", "t", "u", "v", "w", "x", "y", "z">>

Digits == {"0", "1", "2", "3", "4", "5", "6", "7", "8", "9"}

\* str.lower() on one character
LowerChar(c) ==
    IF \E i \in 1..Len(UpperLetters) : UpperLetters[i] = c
    THEN LowerLetters[CHOOSE i \in 1..Len(UpperLetters) : UpperLetters[i] = c]
    ELSE c

\* str.lower()
Lower(s) == [i \in 1..Len(s) |-> LowerChar(s[i])]

\* str.lstrip() / str.rstrip() / str.strip()
RECURSIVE LStrip(_)
LStrip(s) ==
    IF s # <<>> /\ Head(s) \in Whitespace THEN LStrip(Tail(s)) ELSE s

RECURSIVE RStrip(_)
RStrip(s) ==
    IF s # <<>> /\ s[Len(s)] \in Whitespace
    THEN RStrip(SubSeq(s, 1, Len(s) - 1))
    ELSE s

Strip(s) == LStrip(RStrip(s))

\* re.sub(<one character of class>, '', s)
RemoveChars(s, class) == SelectSeq(s, LAMBDA c : c \notin class)

\* re.sub(<one character of class>, by, s)
ReplaceChars(s, class, by) ==
    [i \in 1..Len(s) |-> IF s[i] \in class THEN by ELSE s[i]]

\* the characters the pattern [^a-z0-9-] keeps
SlugChars == Range(LowerLetters) \cup Digits \cup {"-"}

\* as normalize_game_name, without lower()
normalize_game_name_cased(name) ==
    RemoveChars(Strip(name), {"'", ":"} \cup Whitespace)

\* normalize_game_name(name) for a str
normalize_game_name(name) ==
    RemoveChars(Lower(Strip(name)), {"'", ":"} \cup Whitespace)

\* a Python value: a str of characters, None or an int
Str(chars) == [type |-> "str", value |-> chars]

NonStrings ==
    {[type |-> "NoneType", value |-> <<>>], [type |-> "int", value |-> <<"1">>]}

isinstance_str(name) == name.type = "str"

\* normalize_game_name(name) for any value
normalize_game_name_value(name) ==
    IF ~isinstance_str(name) THEN <<>> ELSE normalize_game_name(name.value)

Forspoken == <<"f", "o", "r", "s", "p", "o", "k", "e", "n">>

ProjectAthia ==
    <<"p", "r", "o", "j", "e", "c", "t", "-", "a", "t", "h", "i", "a">>

\* as game_url_slug, but the special case is compared without lower()
game_url_slug_exact(game_title) ==
    IF game_title = <<"F">> \o Tail(Forspoken)
    THEN ProjectAthia
    ELSE LET s1 == RemoveChars(Lower(game_title), {"'", ":"})
             s2 == ReplaceChars(s1, Whitespace, "-")
         IN  SelectSeq(s2, LAMBDA c : c \in SlugChars)

\* as game_url_slug, but apostrophes and colons become hyphens too
game_url_slug_hyphens(game_title) ==
    IF Lower(game_title) = Forspoken
    THEN ProjectAthia
    ELSE LET s2 == ReplaceChars(Lower(game_title),
                                {"'", ":"} \cup Whitespace, "-")
         IN  SelectSeq(s2, LAMBDA c : c \in SlugChars)

\* game_url_slug of scrape_rawg_suggestions(game_title)
game_url_slug(game_title) ==
    IF Lower(game_title) = Forspoken
    THEN ProjectAthia
    ELSE LET s1 == RemoveChars(Lower(game_title), {"'", ":"})
             s2 == ReplaceChars(s1, Whitespace, "-")
         IN  SelectSeq(s2, LAMBDA c : c \in SlugChars)

(***************************************************************************)
(* The DOM of one card (div.game-card-large), as the queries of the        *)
(* extraction loop see it.                                                 *)
(*   image  : <<>> when there is no img.game-card-large__image, else <<src>>*)
(*   badges : the class attribute of each div.platforms__platform, as the  *)
(*            words split(' ') gives; <<>> when the attribute is missing   *)
(*   score  : <<>> when there is no div.metascore-label, else <<text>>     *)
(*   link   : <<>> when there is no heading link, else <<text, href>>      *)
(*   raises : the query on this card that raises ("none" when none does)   *)
(* A class word is [prefixed, stem]: its text is the stem, preceded by     *)
(* 'platforms__platform_' when prefixed.                                   *)
(***************************************************************************)
Word(prefixed, stem) == [prefixed |-> prefixed, stem |-> stem]

Badge(name) == <<Word(FALSE, "platforms__platform"), Word(TRUE, name)>>

\* str.lower() and str.upper() on the words a badge can hold
LowerWord(w) ==
    CASE w = "PC" -> "pc"
      [] w = "PLAYSTATION" -> "playstation"
      [] w = "XBOX" -> "xbox"
      [] OTHER -> w

UpperWord(w) ==
    CASE w = "pc" -> "PC"
      [] w = "playstation" -> "PLAYSTATION"
      [] w = "xbox" -> "XBOX"
      [] w = "platforms__platform" -> "PLATFORMS__PLATFORM"
      [] OTHER -> w

limit == 60

\* as allowed_platforms, without 'pc'
allowed_platforms_ps == <<"playstation">>

allowed_platforms == <<"playstation", "pc">>

NA == <<"N/A">>

\* class_attr.split(' ')[-1].replace('platforms__platform_', '').lower()
platform_name(class_attr) == LowerWord(class_attr[Len(class_attr)].stem)

\* the list platforms built from the badges of one card
platforms_of(badges) ==
    LET present == SelectSeq(badges, LAMBDA class_attr : class_attr # <<>>)
    IN  [i \in 1..Len(present) |-> platform_name(present[i])]

\* metascore of one card
metascore_of(card) == IF card.score # <<>> THEN card.score ELSE NA

\* as Kept, but the platforms are not looked at
KeptAnyPlatform(metascore, platforms) == metascore # NA

\* the test of line 77, negated: the card is kept
Kept(metascore, platforms) ==
    ~(metascore = NA
      \/ ~(\E i \in 1..Len(allowed_platforms) :
              allowed_platforms[i] \in Range(platforms)))

\* ', '.join(words)
RECURSIVE Join(_)
Join(words) ==
    IF Len(words) <= 1
    THEN words
    ELSE <<Head(words), ", ">> \o Join(Tail(words))

\* the dict appended to suggestions_list for one card
Suggestion(card) ==
    LET platforms == platforms_of(card.badges)
    IN  [title |-> <<card.link[1]>>,
         url |-> <<"https://rawg.io", card.link[2]>>,
         platforms |-> Join([i \in 1..Len(platforms) |-> UpperWord(platforms[i])]),
         metascore |-> metascore_of(card),
         image |-> card.image]

\* one iteration of the loop over game_elements: what it appends
ExtractCard(card) ==
    IF card.raises \in {"image", "platforms", "score"}
    THEN <<>>
    ELSE IF ~Kept(metascore_of(card), platforms_of(card.badges))
    THEN <<>>
    ELSE IF card.raises = "link" \/ card.link = <<>>
    THEN <<>>
    ELSE <<Suggestion(card)>>

\* as ExtractFrom, but the first card with a query that raises ends the loop
RECURSIVE ExtractFromUntilRaise(_, _)
ExtractFromUntilRaise(game_elements, i) ==
    IF i > Len(game_elements) \/ game_elements[i].raises # "none"
    THEN <<>>
    ELSE ExtractCard(game_elements[i])
             \o ExtractFromUntilRaise(game_elements, i + 1)

\* suggestions_list after the loop over game_elements
RECURSIVE ExtractFrom(_, _)
ExtractFrom(game_elements, i) ==
    IF i > Len(game_elements)
    THEN <<>>
    ELSE ExtractCard(game_elements[i]) \o ExtractFrom(game_elements, i + 1)

suggestions_list_of(game_elements) == ExtractFrom(game_elements, 1)

\* s[-n:] for n > 0, where Take is s[:n]
TakeLast(s, n) == SubSeq(s, IF Len(s) < n THEN 1 ELSE Len(s) - n + 1, Len(s))

\* s[:n]
Take(s, n) == SubSeq(s, 1, IF Len(s) < n THEN Len(s) ELSE n)

\* rows_to_append of main()
rows_to_append_of(game_title, suggestions) ==
    [i \in 1..Len(suggestions) |->
        <<game_title, suggestions[i].title, suggestions[i].platforms,
          suggestions[i].metascore, suggestions[i].url, suggestions[i].image>>]

(***************************************************************************)
(* Worksheets. A worksheet is the sequence of its rows, a row the sequence *)
(* of its cells; a spreadsheet tab is [exists, rows].                      *)
(***************************************************************************)
expected_header ==
    << <<"J", "o", "g", "o", " ", "B", "a", "s", "e">>, <<"Jogo Similar">>,
       <<"Plataformas">>, <<"Metascore">>, <<"URL">>, <<"Imagem">> >>

\* worksheet.col_values(1)
col_values_1(rows) ==
    [i \in 1..Len(rows) |-> IF rows[i] = <<>> THEN <<>> ELSE rows[i][1]]

\* worksheet.row_values(1)
row_values_1(rows) == IF rows = <<>> THEN <<>> ELSE rows[1]

\* as update_A1F1, but the sheet is cleared before the header is written
update_cleared(rows, values) == <<values>>

\* as update_A1F1, but nothing is written
update_nothing(rows, values) == rows

\* worksheet.update('A1:F1', [values]): the six cells A1..F1 are written,
\* the cells of row 1 to their right and the other rows are left alone
update_A1F1(rows, values) ==
    LET old == row_values_1(rows)
        width == IF Len(old) > Len(values) THEN Len(old) ELSE Len(values)
        new == [i \in 1..width |-> IF i <= Len(values) THEN values[i] ELSE old[i]]
    IN  IF rows = <<>> THEN <<new>> ELSE [rows EXCEPT ![1] = new]

\* as append_rows, but only the first row of the batch gets written
append_rows_first(rows, new) == rows \o Take(new, 1)

\* worksheet.append_rows(new): one request, after the last row
append_rows(rows, new) == rows \o new

(***************************************************************************)
(* Delta planning (main, lines 132-142).                                   *)
(***************************************************************************)
\* [cell[0] for cell in source_sheet.get_all_values() if cell and cell[0]]
all_game_titles_of(values) ==
    LET kept == SelectSeq(values, LAMBDA cell : cell # <<>> /\ cell[1] # <<>>)
    IN  [i \in 1..Len(kept) |-> kept[i][1]]

\* set(normalize_game_name(title) for title in target_sheet.col_values(1))
processed_titles_set_of(rows) ==
    {normalize_game_name(title) : title \in Range(col_values_1(rows))}

\* as games_to_scrape_of, but comparing the lower-cased title, not its key
games_to_scrape_raw(titles, processed) ==
    SelectSeq(titles, LAMBDA t : Lower(t) \notin processed)

\* [t for t in all_game_titles if normalize_game_name(t) not in processed]
games_to_scrape_of(titles, processed) ==
    SelectSeq(titles, LAMBDA t : normalize_game_name(t) \notin processed)

(***************************************************************************)
(* The inputs of the model: titles, sheets, command lines, pages.          *)
(***************************************************************************)
TitleHa == <<"H", "a">>
TitleHa2 == <<" ", "h", "'", "a">>
TitleBo == <<"B", ":", "o">>

SeqsUpTo(S, n) == UNION {[1..k -> S] : k \in 0..n}

HollowKnight ==
    <<"H", "o", "l", "l", "o", "w", " ", "K", "n", "i", "g", "h", "t">>

ItTakesTwo == <<"I", "t", " ", "T", "a", "k", "e", "s", " ", "T", "w", "o">>

ForspokenTitles ==
    {<<"F", "o", "r", "s", "p", "o", "k", "e", "n">>,
     <<"F", "O", "R", "S", "P", "O", "K", "E", "N">>,
     <<"f", "o", "r", "s", "p", "o", "k", "e", "n">>,
     <<"f", "o", "R", "s", "P", "o", "k", "E", "n">>}

\* the characters titles are drawn from
TitleAlphabet == {"A", "a", "1", "'", ":", " ", "-", "!"}

\* titles of at most n characters, and the titles the program names
TitlesUpTo(n) ==
    SeqsUpTo(TitleAlphabet, n) \cup ForspokenTitles
        \cup {HollowKnight, ItTakesTwo}

CardPC ==
    [image |-> <<"celeste.jpg">>, badges |-> <<Badge("pc")>>,
     score |-> <<"85">>, link |-> <<"Celeste", "/games/celeste">>,
     raises |-> "none"]

CardPSXbox ==
    [image |-> <<>>, badges |-> <<Badge("xbox"), <<>>, Badge("PLAYSTATION")>>,
     score |-> <<"90">>, link |-> <<"Journey", "/games/journey">>,
     raises |-> "none"]

CardXbox ==
    [image |-> <<"halo.jpg">>, badges |-> <<Badge("xbox")>>,
     score |-> <<"70">>, link |-> <<"Halo", "/games/halo">>,
     raises |-> "none"]

CardNoScore ==
    [image |-> <<"tunic.jpg">>, badges |-> <<Badge("pc")>>,
     score |-> <<>>, link |-> <<"Tunic", "/games/tunic">>,
     raises |-> "none"]

CardScoreNA ==
    [image |-> <<"omori.jpg">>, badges |-> <<Badge("pc"), Badge("xbox")>>,
     score |-> NA, link |-> <<"Omori", "/games/omori">>,
     raises |-> "none"]

CardNoLink ==
    [image |-> <<"inside.jpg">>, badges |-> <<Badge("pc")>>,
     score |-> <<"85">>, link |-> <<>>,
     raises |-> "none"]

CardStale ==
    [image |-> <<"limbo.jpg">>, badges |-> <<Badge("pc")>>,
     score |-> <<"88">>, link |-> <<"Limbo", "/games/limbo">>,
     raises |-> "image"]

CardBrokenScore ==
    [image |-> <<"gris.jpg">>, badges |-> <<Badge("playstation")>>,
     score |-> <<"84">>, link |-> <<"Gris", "/games/gris">>,
     raises |-> "score"]

CardPool ==
    {CardPC, CardPSXbox, CardXbox, CardNoScore, CardScoreNA, CardNoLink,
     CardStale, CardBrokenScore}

\* a row an earlier run appended for game_title
OldRow(game_title) == rows_to_append_of(game_title, <<Suggestion(CardPC)>>)[1]

\* a row 1 that is not the expected header: other names, a seventh column
other_header ==
    << <<"J", "o", "g", "o">>, <<"Similar">>, <<"Plataformas">>, <<"Nota">>,
       <<"Link">>, <<"Capa">>, <<"Notas">> >>

NoSheet == [exists |-> FALSE, rows |-> <<>>]

Sheet(rows) == [exists |-> TRUE, rows |-> rows]

\* "Jogos Similares" before a run
TargetSheets ==
    {NoSheet, Sheet(<<>>), Sheet(<<expected_header>>),
     Sheet(<<expected_header, OldRow(TitleHa)>>),
     Sheet(<<expected_header, OldRow(TitleBo)>>),
     Sheet(<<SubSeq(expected_header, 1, 5)>>),
     Sheet(<<other_header, OldRow(TitleHa)>>)}

\* one row of "Jogos": no cell, an empty column A, or a title in column A
SourceRows == {<<>>, << <<>> >>, <<TitleHa>>, <<TitleHa2>>, <<TitleBo>>}

\* "Jogos" before a run
SourceSheets == {NoSheet} \cup {Sheet(v) : v \in SeqsUpTo(SourceRows, MaxRows)}

\* sys.argv[1:2]
CommandLines == {<<>>, << <<>> >>, <<TitleHa>>, <<TitleBo>>}

\* The pages a site serves: the card kinds its pages repeat in a pattern of
\* at most maxPattern cards, the cards shown before the first scroll, the
\* cards one scroll adds, and the scroll cycles after which the document
\* height no longer changes.
SmallSite ==
    [kinds |-> {CardPC, CardXbox}, maxPattern |-> 1, maxCards |-> 1,
     chunks |-> {0, 1}, maxStable |-> 1]

RichSite ==
    [kinds |-> CardPool, maxPattern |-> MaxPattern, maxCards |-> MaxCards,
     chunks |-> {0, 1, limit \div 2, limit}, maxStable |-> MaxStable]

Patterns(s) == UNION {[1..k -> s.kinds] : k \in 1..s.maxPattern}

\* the n cards of a page that repeats pattern
Cards(pattern, n) ==
    [i \in 1..n |-> pattern[((i - 1) % Len(pattern)) + 1]]

NoPage == [height |-> 0, cards |-> 0, chunk |-> 0, stable |-> 0]

(***************************************************************************)
(* The state.                                                              *)
(*   site, jogos, target : the catalog site and the two spreadsheet tabs   *)
(*   playwright, open_contexts : whether the Playwright driver runs, and   *)
(*       the number of browsers launched and not yet torn down             *)
(*   page : the document the browser shows                                 *)
(*   pc, run : the position in main() / scrape_rawg_suggestions(), and the *)
(*       number of the run of main()                                       *)
(*   game_to_process_from_arg .. suggestions : the locals of main(); the   *)
(*       optional argument is <<>> (None) or <<title>>; idx is the         *)
(*       position of the for loop in games_to_scrape (0 before the loop)   *)
(*   game_title .. suggestions_list : the locals of                        *)
(*       scrape_rawg_suggestions()                                         *)
(*   base_rows, results : history; the rows of the target sheet when the   *)
(*       loop starts, and the game, the slug, the way it ended and the     *)
(*       records of each finished scrape of this run                       *)
(*   names, keys : values handed to normalize_game_name() outside a run,   *)
(*       and what it returned for each (<<>> before the calls)             *)
(***************************************************************************)
VARIABLES site, jogos, target, playwright, open_contexts, page, pc, run,
          game_to_process_from_arg, all_game_titles, processed_titles_set,
          games_to_scrape, idx, suggestions,
          game_title, url, browser, last_height, scroll_count,
          game_elements, suggestions_list,
          base_rows, results,
          names, keys

world == <<site, jogos, names, keys>>

main_locals ==
    <<game_to_process_from_arg, all_game_titles, processed_titles_set,
      games_to_scrape, idx, suggestions>>

scrape_locals ==
    <<game_title, url, browser, last_height, scroll_count, game_elements,
      suggestions_list>>

vars ==
    <<site, jogos, target, playwright, open_contexts, page, pc, run,
      game_to_process_from_arg, all_game_titles, processed_titles_set,
      games_to_scrape, idx, suggestions,
      game_title, url, browser, last_height, scroll_count,
      game_elements, suggestions_list,
      base_rows, results,
      names, keys>>

ScrapePcs == {"launch", "goto", "wait", "scroll", "extract", "close"}

\* the scroll loop is cut off here when it fails to end by itself
ScrollCap == MaxStable + 3

\* bool(game_to_process_from_arg)
Truthy(arg) == arg # <<>> /\ arg[1] # <<>>

NoScrapeLocals ==
    /\ game_title = <<>>
    /\ url = <<>>
    /\ browser = "None"
    /\ last_height = 0
    /\ scroll_count = 0
    /\ game_elements = <<>>
    /\ suggestions_list = <<>>

NoMainLocals ==
    /\ all_game_titles = <<>>
    /\ processed_titles_set = {}
    /\ games_to_scrape = <<>>
    /\ idx = 0
    /\ suggestions = <<>>

InitRun(s, sources, targets, commandLines) ==
    /\ site = s
    /\ jogos \in sources
    /\ target \in targets
    /\ game_to_process_from_arg \in commandLines
    /\ playwright = FALSE
    /\ open_contexts = 0
    /\ page = NoPage
    /\ pc = "start"
    /\ run = 1
    /\ NoMainLocals
    /\ NoScrapeLocals
    /\ base_rows = <<>>
    /\ results = <<>>

InitWith(s, sources, targets, commandLines) ==
    /\ InitRun(s, sources, targets, commandLines)
    /\ names = <<>>
    /\ keys = <<>>

\* a run against any sheets and any command line, on a site of small pages
Init == InitWith(SmallSite, SourceSheets, TargetSheets, CommandLines)

\* a run for one game on a site of rich pages
InitScrape ==
    InitWith(RichSite, {NoSheet, Sheet(<< <<TitleHa>> >>)},
             {NoSheet, Sheet(<<expected_header>>),
              Sheet(<<expected_header, OldRow(TitleHa)>>)},
             {<<>>, <<TitleHa>>})

\* two runs in a row over the same sheets, on a site of small pages
InitRerun ==
    InitWith(SmallSite,
             {NoSheet} \cup
             {Sheet(v) : v \in SeqsUpTo({<<TitleHa>>, <<TitleBo>>}, MaxRows)},
             {NoSheet, Sheet(<<expected_header, OldRow(TitleBo)>>)},
             {<<>>, <<TitleHa>>})

\* a run for one title, given as the argument or twice in "Jogos"
InitSlug ==
    \/ InitWith(SmallSite, {NoSheet},
                {NoSheet, Sheet(<<expected_header>>)},
                {<<>>} \cup {<<t>> : t \in TitlesUpTo(MaxTitleLen)})
    \/ InitWith(SmallSite,
                {Sheet(<< <<t>>, <<t>> >>) : t \in TitlesUpTo(MaxTitleLen)},
                {NoSheet, Sheet(<<expected_header>>)},
                {<<>>})

\* no run: two strings and a value that is no string, to be normalized
InitKey ==
    /\ InitRun(SmallSite, {NoSheet}, {NoSheet}, {<<>>})
    /\ names \in {<<Str(a), Str(b), c>> : a \in TitlesUpTo(MaxTitleLen),
                                          b \in TitlesUpTo(MaxTitleLen),
                                          c \in NonStrings}
    /\ keys = <<>>

\* normalize_game_name called on each of the names
Normalize ==
    /\ names # <<>>
    /\ keys = <<>>
    /\ keys' = [i \in 1..Len(names) |-> normalize_game_name_value(names[i])]
    /\ UNCHANGED <<site, jogos, names, target, playwright, open_contexts,
                   page, pc, run, main_locals, scrape_locals, base_rows,
                   results>>

(***************************************************************************)
(* main()                                                                  *)
(***************************************************************************)
\* get_google_sheets_client() and client.open("database-jogos") succeed
GetClient ==
    /\ pc = "start"
    /\ pc' = "plan"
    /\ UNCHANGED <<world, target, playwright, open_contexts, page, run,
                   main_locals, scrape_locals, base_rows, results>>

\* ... or raise: no credentials, invalid credentials, no such spreadsheet
GetClientRaises ==
    /\ pc = "start"
    /\ pc' = "fatal"
    /\ UNCHANGED <<world, target, playwright, open_contexts, page, run,
                   main_locals, scrape_locals, base_rows, results>>

\* as PlanSingle, but the argument goes through the filter of delta mode
PlanSingleFiltered ==
    /\ pc = "plan"
    /\ Truthy(game_to_process_from_arg)
    /\ games_to_scrape' =
           games_to_scrape_of(<<game_to_process_from_arg[1]>>,
                              processed_titles_set_of(target.rows))
    /\ pc' = "planned"
    /\ UNCHANGED <<world, target, playwright, open_contexts, page, run,
                   game_to_process_from_arg, all_game_titles,
                   processed_titles_set, idx, suggestions, scrape_locals,
                   base_rows, results>>

\* an argument is given: it is the one game to scrape
PlanSingle ==
    /\ pc = "plan"
    /\ Truthy(game_to_process_from_arg)
    /\ games_to_scrape' = <<game_to_process_from_arg[1]>>
    /\ pc' = "planned"
    /\ UNCHANGED <<world, target, playwright, open_contexts, page, run,
                   game_to_process_from_arg, all_game_titles,
                   processed_titles_set, idx, suggestions, scrape_locals,
                   base_rows, results>>

\* no argument: the games of "Jogos" that "Jogos Similares" does not hold
PlanDelta ==
    /\ pc = "plan"
    /\ ~Truthy(game_to_process_from_arg)
    /\ jogos.exists
    /\ all_game_titles' = all_game_titles_of(jogos.rows)
    /\ IF target.exists
       THEN /\ processed_titles_set' = processed_titles_set_of(target.rows)
            /\ target' = target
       ELSE /\ processed_titles_set' = {}
            /\ target' = Sheet(<<>>)
    /\ games_to_scrape' =
           games_to_scrape_of(all_game_titles', processed_titles_set')
    /\ pc' = "planned"
    /\ UNCHANGED <<world, playwright, open_contexts, page, run,
                   game_to_process_from_arg, idx, suggestions, scrape_locals,
                   base_rows, results>>

\* as SourceSheetMissing, but a missing "Jogos" counts as an empty one
SourceSheetMissingSkipped ==
    /\ pc = "plan"
    /\ ~Truthy(game_to_process_from_arg)
    /\ ~jogos.exists
    /\ pc' = "planned"
    /\ UNCHANGED <<world, target, playwright, open_contexts, page, run,
                   main_locals, scrape_locals, base_rows, results>>

\* no argument and no "Jogos" worksheet: WorksheetNotFound, caught at 175
SourceSheetMissing ==
    /\ pc = "plan"
    /\ ~Truthy(game_to_process_from_arg)
    /\ ~jogos.exists
    /\ pc' = "fatal"
    /\ UNCHANGED <<world, target, playwright, open_contexts, page, run,
                   main_locals, scrape_locals, base_rows, results>>

\* if not games_to_scrape: return
NothingToDo ==
    /\ pc = "planned"
    /\ games_to_scrape = <<>>
    /\ pc' = "done"
    /\ UNCHANGED <<world, target, playwright, open_contexts, page, run,
                   main_locals, scrape_locals, base_rows, results>>

\* the target worksheet is fetched or added, and its header checked
CheckHeader ==
    /\ pc = "planned"
    /\ games_to_scrape # <<>>
    /\ LET rows == IF target.exists THEN target.rows ELSE <<>>
           current_header == row_values_1(rows)
       IN  target' = Sheet(IF current_header # expected_header
                           THEN update_A1F1(rows, expected_header)
                           ELSE rows)
    /\ base_rows' = target'.rows
    /\ idx' = 1
    /\ pc' = "loop"
    /\ UNCHANGED <<world, playwright, open_contexts, page, run,
                   game_to_process_from_arg, all_game_titles,
                   processed_titles_set, games_to_scrape, suggestions,
                   scrape_locals, results>>

\* for game_title in games_to_scrape: the call of scrape_rawg_suggestions,
\* up to the try (the slug, the url, browser = None)
StartScrape ==
    /\ pc = "loop"
    /\ idx <= Len(games_to_scrape)
    /\ game_title' = games_to_scrape[idx]
    /\ url' = game_url_slug(games_to_scrape[idx])
    /\ browser' = "None"
    /\ pc' = "launch"
    /\ UNCHANGED <<world, target, playwright, open_contexts, page, run,
                   main_locals, last_height, scroll_count, game_elements,
                   suggestions_list, base_rows, results>>

\* the for loop is exhausted: main() returns
Finish ==
    /\ pc = "loop"
    /\ idx > Len(games_to_scrape)
    /\ pc' = "done"
    /\ UNCHANGED <<world, target, playwright, open_contexts, page, run,
                   main_locals, scrape_locals, base_rows, results>>

(***************************************************************************)
(* scrape_rawg_suggestions(game_title)                                     *)
(***************************************************************************)
\* browser.close(): the browser of this call is torn down
BrowserClose(n) == IF n > 0 THEN n - 1 ELSE 0

\* as PlaywrightExit, but the browsers outlive the block
PlaywrightExitLeak(n) == n

\* leaving the block of 'async with async_playwright()': the driver stops,
\* and with it every browser it launched
PlaywrightExit(n) == 0

\* async_playwright() starts the driver; chromium.launch() and new_page()
Launch ==
    /\ pc = "launch"
    /\ playwright' = TRUE
    /\ open_contexts' = open_contexts + 1
    /\ browser' = "connected"
    /\ pc' = "goto"
    /\ UNCHANGED <<world, target, page, run, main_locals, game_title, url,
                   last_height, scroll_count, game_elements,
                   suggestions_list, base_rows, results>>

\* page.goto(url): the site serves one of its pages
Goto ==
    /\ pc = "goto"
    /\ \E n \in 0..site.maxCards, chunk \in site.chunks,
          stable \in 0..site.maxStable :
          page' = [height |-> 1, cards |-> n, chunk |-> chunk,
                   stable |-> stable]
    /\ pc' = "wait"
    /\ UNCHANGED <<world, target, playwright, open_contexts, run,
                   main_locals, scrape_locals, base_rows, results>>

\* wait_for_selector finds the container; the settle time; the first
\* measure of document.body.scrollHeight
WaitForSelector ==
    /\ pc = "wait"
    /\ last_height' = page.height
    /\ scroll_count' = 0
    /\ pc' = "scroll"
    /\ UNCHANGED <<world, target, playwright, open_contexts, page, run,
                   main_locals, game_title, url, browser, game_elements,
                   suggestions_list, base_rows, results>>

\* as NextLastHeight, but last_height is never updated
KeepLastHeight(last, new) == last

\* last_height after one pass of the loop that does not break
NextLastHeight(last, new) == new

\* One pass of the while loop: scroll to the bottom, wait, measure. Until
\* the page is stable a scroll may load page.chunk more cards and grow the
\* document; a stable page no longer changes.
Scroll ==
    /\ pc = "scroll"
    /\ scroll_count < ScrollCap
    /\ \E grows \in BOOLEAN :
          /\ grows => scroll_count < page.stable
          /\ page' = IF grows
                     THEN [page EXCEPT !.height = @ + 1,
                                       !.cards = @ + page.chunk]
                     ELSE page
    /\ scroll_count' = scroll_count + 1
    /\ LET new_height == page'.height
       IN  IF new_height = last_height \/ page'.cards >= limit
           THEN /\ pc' = "extract"
                /\ last_height' = last_height
           ELSE /\ pc' = "scroll"
                /\ last_height' = NextLastHeight(last_height, new_height)
    /\ UNCHANGED <<world, target, playwright, open_contexts, run,
                   main_locals, game_title, url, browser, game_elements,
                   suggestions_list, base_rows, results>>

\* query_selector_all('div.game-card-large') and the loop over the cards
Extract ==
    /\ pc = "extract"
    /\ \E pattern \in Patterns(site) :
          game_elements' = Cards(pattern, page.cards)
    /\ suggestions_list' = suggestions_list_of(game_elements')
    /\ pc' = "close"
    /\ UNCHANGED <<world, target, playwright, open_contexts, page, run,
                   main_locals, game_title, url, browser, last_height,
                   scroll_count, base_rows, results>>

\* as Returned, but the list is not cut
ReturnedAll(list) == list

\* what a call that returned at line 96 hands to main()
Returned(list) == Take(list, limit)

\* await browser.close(); return suggestions_list[:limit]
CloseAndReturn ==
    /\ pc = "close"
    /\ browser' = "closed"
    /\ open_contexts' = PlaywrightExit(BrowserClose(open_contexts))
    /\ playwright' = FALSE
    /\ suggestions' = Returned(suggestions_list)
    /\ results' = Append(results, [game |-> game_title, url |-> url,
                                   outcome |-> "returned",
                                   suggestions |-> suggestions'])
    /\ pc' = "commit"
    /\ UNCHANGED <<world, target, page, run, game_to_process_from_arg,
                   all_game_titles, processed_titles_set, games_to_scrape,
                   idx, game_title, url, last_height, scroll_count,
                   game_elements, suggestions_list, base_rows>>

\* as ScrapeRaises, but the exception leaves scrape_rawg_suggestions and is
\* caught by main() at line 175
ScrapeRaisesUncaught ==
    /\ pc \in ScrapePcs
    /\ open_contexts' = PlaywrightExit(open_contexts)
    /\ browser' = IF browser = "None" THEN "None" ELSE "disconnected"
    /\ playwright' = FALSE
    /\ pc' = "fatal"
    /\ UNCHANGED <<world, target, page, run, main_locals, game_title, url,
                   last_height, scroll_count, game_elements,
                   suggestions_list, base_rows, results>>

\* what a call that raised inside the try hands to main()
Raised == <<>>

\* An await inside the try raises (the launch fails, the navigation fails or
\* times out, the container never appears, the page or an element is gone):
\* the async with block is left, then the handler of line 98 runs. After
\* the driver stopped, is_connected() may answer either way.
ScrapeRaises ==
    /\ pc \in ScrapePcs
    /\ \E is_connected \in BOOLEAN :
          /\ browser = "None" => ~is_connected
          /\ open_contexts' =
                 IF browser # "None" /\ is_connected
                 THEN BrowserClose(PlaywrightExit(open_contexts))
                 ELSE PlaywrightExit(open_contexts)
          /\ browser' = IF browser = "None" THEN "None"
                        ELSE IF is_connected THEN "closed" ELSE "disconnected"
    /\ playwright' = FALSE
    /\ suggestions' = Raised
    /\ results' = Append(results, [game |-> game_title, url |-> url,
                                   outcome |-> "raised",
                                   suggestions |-> suggestions'])
    /\ pc' = "commit"
    /\ UNCHANGED <<world, target, page, run, game_to_process_from_arg,
                   all_game_titles, processed_titles_set, games_to_scrape,
                   idx, game_title, url, last_height, scroll_count,
                   game_elements, suggestions_list, base_rows>>

(***************************************************************************)
(* main(): the body of the for loop after the scrape                       *)
(***************************************************************************)
\* the frame of the finished call is gone
ClearScrape ==
    /\ game_title' = <<>>
    /\ url' = <<>>
    /\ browser' = "None"
    /\ last_height' = 0
    /\ scroll_count' = 0
    /\ game_elements' = <<>>
    /\ suggestions_list' = <<>>
    /\ page' = NoPage

\* if suggestions: append_rows(rows_to_append) else: print
Commit ==
    /\ pc = "commit"
    /\ target' = IF suggestions # <<>>
                 THEN [target EXCEPT !.rows =
                          append_rows(@, rows_to_append_of(games_to_scrape[idx],
                                                           suggestions))]
                 ELSE target
    /\ idx' = idx + 1
    /\ pc' = "loop"
    /\ ClearScrape
    /\ UNCHANGED <<world, playwright, open_contexts, run,
                   game_to_process_from_arg, all_game_titles,
                   processed_titles_set, games_to_scrape, suggestions,
                   base_rows, results>>

\* append_rows raises (the API refuses the request): caught at line 175
AppendRaises ==
    /\ pc = "commit"
    /\ suggestions # <<>>
    /\ pc' = "fatal"
    /\ ClearScrape
    /\ UNCHANGED <<world, target, playwright, open_contexts, run,
                   main_locals, base_rows, results>>

\* main() returned and the program is started again: same "Jogos", same
\* command line, and "Jogos Similares" as the run before left it
Rerun ==
    /\ pc = "done"
    /\ run < MaxRuns
    /\ run' = run + 1
    /\ pc' = "start"
    /\ all_game_titles' = <<>>
    /\ processed_titles_set' = {}
    /\ games_to_scrape' = <<>>
    /\ idx' = 0
    /\ suggestions' = <<>>
    /\ base_rows' = <<>>
    /\ results' = <<>>
    /\ UNCHANGED <<world, target, playwright, open_contexts, page,
                   game_to_process_from_arg, scrape_locals>>

Next ==
    \/ GetClient
    \/ GetClientRaises
    \/ PlanSingle
    \/ PlanDelta
    \/ SourceSheetMissing
    \/ NothingToDo
    \/ CheckHeader
    \/ StartScrape
    \/ Finish
    \/ Launch
    \/ Goto
    \/ WaitForSelector
    \/ Scroll
    \/ Extract
    \/ CloseAndReturn
    \/ ScrapeRaises
    \/ Commit
    \/ AppendRaises

NextRerun == Next \/ Rerun

Spec == Init /\ [][Next]_vars

SpecScrape == InitScrape /\ [][Next]_vars

SpecRerun == InitRerun /\ [][NextRerun]_vars

SpecSlug == InitSlug /\ [][Next]_vars

NextKey == Normalize

SpecKey == InitKey /\ [][NextKey]_vars

(***************************************************************************)
(* Properties.                                                             *)
(***************************************************************************)
Last(s) == s[Len(s)]

DeltaMode == ~Truthy(game_to_process_from_arg)

\* C1: after a delta-mode run of main() has returned, a second delta-mode
\* run over the same "Jogos" and over "Jogos Similares" as the first run
\* left it selects an empty pending list, whatever each scrape of the first
\* run gave (records, no record, a failure).
C1_SecondRunSelectsNothing ==
    (run = 2 /\ DeltaMode /\ pc = "planned") => games_to_scrape = <<>>

\* C2: the pending list is exactly the subsequence of all_game_titles whose
\* normalized key is not in processed_titles_set: as many entries as there
\* are such positions, the k-th entry being the title at the k-th such
\* position (input order, duplicates kept); it is empty when every key of
\* all_game_titles is in processed_titles_set.
C2_PendingIsDelta ==
    DeltaMode =>
        LET keep == {i \in 1..Len(all_game_titles) :
                        normalize_game_name(all_game_titles[i])
                            \notin processed_titles_set}
            nth(k) == CHOOSE i \in keep : Cardinality({j \in keep : j <= i}) = k
        IN  /\ Len(games_to_scrape) = Cardinality(keep)
            /\ \A k \in 1..Len(games_to_scrape) :
                  games_to_scrape[k] = all_game_titles[nth(k)]
            /\ ({normalize_game_name(t) : t \in Range(all_game_titles)}
                    \subseteq processed_titles_set
                => games_to_scrape = <<>>)

\* a duplicated title, pending twice while a title with a processed key
\* would be dropped
C2_Witness ==
    /\ pc = "planned"
    /\ DeltaMode
    /\ all_game_titles = <<TitleHa, TitleHa>>
    /\ games_to_scrape = <<TitleHa, TitleHa>>
    /\ processed_titles_set # {}

\* C3: a scrape that raises returns zero records and appends no row; the
\* run goes on with the next pending game, and ends only when every
\* pending game was attempted, or because an append was refused: never
\* because a scrape failed.
C3_FailureIsolated ==
    /\ [](pc = "done" /\ games_to_scrape # <<>> =>
            /\ Len(results) = Len(games_to_scrape)
            /\ \A i \in 1..Len(results) : results[i].game = games_to_scrape[i])
    /\ [](\A i \in 1..Len(results) :
            results[i].outcome = "raised" => results[i].suggestions = <<>>)
    /\ [][/\ (pc \in ScrapePcs /\ pc' \notin ScrapePcs) =>
                /\ pc' = "commit"
                /\ target' = target
                /\ Len(results') = idx
                /\ suggestions' = Last(results').suggestions
          /\ (pc = "commit" /\ suggestions = <<>>) =>
                (target' = target /\ pc' = "loop" /\ idx' = idx + 1)
          /\ (pc = "loop" /\ idx <= Len(games_to_scrape)) =>
                (pc' = "launch" /\ game_title' = games_to_scrape[idx])
          /\ pc' = "fatal" => (pc \notin ScrapePcs /\ pc # "loop")
         ]_vars

\* the first of two pending games failed and the second is being scraped
C3_Witness ==
    /\ pc = "scroll"
    /\ idx = 2
    /\ results[1].outcome = "raised"
    /\ Len(target.rows) = Len(base_rows)

\* C4: when scrape_rawg_suggestions returns, however it ends, the browser
\* it launched is closed; at most one browser is open at any point of a
\* run, and none is while main() is between two scrapes.
C4_BrowserTornDown ==
    /\ open_contexts <= 1
    /\ pc \notin ScrapePcs => (open_contexts = 0 /\ ~playwright)

\* a scrape that raised after its browser was launched has returned
C4_Witness ==
    /\ pc = "commit"
    /\ Last(results).outcome = "raised"
    /\ browser # "None"
    /\ idx = 2

\* C5: on a page whose height is stable after page.stable scroll cycles the
\* loop scrolls at most page.stable + 1 times and then leaves; it also
\* leaves as soon as a scroll brings the number of cards to the limit.
C5_ScrollTerminates ==
    /\ pc \in {"scroll", "extract", "close"} =>
          scroll_count <= page.stable + 1
    /\ pc = "scroll" => scroll_count <= page.stable
    /\ (pc = "scroll" /\ scroll_count > 0) => page.cards < limit

\* the loop was left after exactly N + 1 scrolls, all N before growing the page
C5_Witness ==
    /\ pc = "extract"
    /\ page.stable = MaxStable
    /\ scroll_count = page.stable + 1
    /\ page.height = 1 + page.stable

\* the rows scrapes 1..n of this run gave, batch after batch
RECURSIVE Batches(_)
Batches(n) ==
    IF n = 0
    THEN <<>>
    ELSE Batches(n - 1)
         \o rows_to_append_of(games_to_scrape[n], results[n].suggestions)

\* C6: at every point of a run the target sheet holds the rows it had when
\* the loop started followed by the whole batch of every game whose commit
\* step is over, and no row of any other game: the batch of a game is on
\* the sheet before the next scrape starts, entirely or not at all.
C6_AtomicCommit ==
    idx >= 1 =>
        /\ target.rows = base_rows \o Batches(idx - 1)
        /\ Len(results) \in {idx - 1, idx}

\* the two rows of the first game are on the sheet while the second game
\* is being scraped
C6_Witness ==
    /\ pc \in ScrapePcs
    /\ idx = 2
    /\ Len(results[1].suggestions) = 2
    /\ Len(target.rows) = Len(base_rows) + 2

\* the first n cells of a row
FirstCells(row, n) == SubSeq(row, 1, IF Len(row) < n THEN Len(row) ELSE n)

\* C7: in every run that appends a data row, row 1 of the target sheet
\* equals the expected header before the first append (and from then on).
C7_HeaderBeforeData ==
    (idx >= 1 /\ (\/ pc = "commit" /\ suggestions # <<>>
                  \/ Len(target.rows) > Len(base_rows)))
        => row_values_1(target.rows) = expected_header

\* C7, amended: from the header check on, so before the first append, the
\* cells A1..F1 of the target sheet equal the expected header. The check
\* happens once per run: it leaves a sheet whose row 1 is the expected
\* header untouched, otherwise it writes A1..F1 and nothing else (the cells
\* of row 1 right of column F and the other rows are kept); no later step
\* of the run changes row 1.
C7_HeaderCellsBeforeData ==
    /\ [](idx >= 1 =>
            /\ target.exists
            /\ FirstCells(row_values_1(target.rows), 6) = expected_header)
    /\ [][/\ (pc = "planned" /\ pc' = "loop") =>
                LET old == IF target.exists THEN target.rows ELSE <<>>
                    new == target'.rows
                IN  IF row_values_1(old) = expected_header
                    THEN new = old
                    ELSE /\ Len(new) = (IF old = <<>> THEN 1 ELSE Len(old))
                         /\ \A r \in 2..Len(old) : new[r] = old[r]
                         /\ \A c \in 7..Len(row_values_1(old)) :
                               /\ c <= Len(new[1])
                               /\ new[1][c] = row_values_1(old)[c]
          /\ (idx >= 1 /\ idx' >= 1) =>
                row_values_1(target'.rows) = row_values_1(target.rows)
         ]_vars

\* rows were appended under a row 1 whose cells A1..F1 the check rewrote
\* and whose seventh cell it kept
C7_Witness ==
    /\ Len(target.rows) > Len(base_rows)
    /\ Len(row_values_1(target.rows)) = 7
    /\ row_values_1(target.rows)[7] = other_header[7]
    /\ FirstCells(row_values_1(target.rows), 6) = expected_header

\* a record or a row cell pair that the filter may let through
ScoredAndAllowed(metascore, platforms) ==
    /\ metascore # NA
    /\ {"PC", "PLAYSTATION"} \cap Range(platforms) # {}

\* the record the card would give is in the list
Included(card, list) ==
    /\ card.link # <<>>
    /\ \E j \in 1..Len(list) :
          /\ list[j].title = <<card.link[1]>>
          /\ list[j].url = <<"https://rawg.io", card.link[2]>>

\* the platforms of the badges of a card that have a class attribute
BadgeNames(card) ==
    {LowerWord(b[Len(b)].stem) : b \in {c \in Range(card.badges) : c # <<>>}}

\* C8: every record built or returned by a scrape, and every row the run
\* appended, has a score other than "N/A" and PC or PLAYSTATION among its
\* platforms; a card with no score label, or with XBOX as its only
\* platform, gives no record.
C8_FilterExclusion ==
    /\ \A i \in 1..Len(suggestions_list) :
          ScoredAndAllowed(suggestions_list[i].metascore,
                           suggestions_list[i].platforms)
    /\ \A i \in 1..Len(suggestions) :
          ScoredAndAllowed(suggestions[i].metascore, suggestions[i].platforms)
    /\ idx >= 1 =>
          \A r \in (Len(base_rows) + 1)..Len(target.rows) :
              ScoredAndAllowed(target.rows[r][4], target.rows[r][3])
    /\ \A i \in 1..Len(game_elements) :
          (game_elements[i].score = <<>> \/ BadgeNames(game_elements[i]) = {"xbox"})
              => ~Included(game_elements[i], suggestions_list)

\* a page with an XBOX-only card gave records, and they were returned
C8_Witness ==
    /\ pc = "commit"
    /\ CardXbox \in Range(game_elements)
    /\ suggestions # <<>>

\* C9: every card of a loaded page that has a score label and PC among its
\* platforms is among the records returned for the game.
C9_FilterInclusion ==
    (pc = "commit" /\ Last(results).outcome = "returned") =>
        \A i \in 1..Len(game_elements) :
            (/\ game_elements[i].score # <<>>
             /\ "pc" \in BadgeNames(game_elements[i]))
                => Included(game_elements[i], suggestions)

\* the card gives a record: nothing raises, it has a heading link, a score
\* label other than "N/A", and PC or PLAYSTATION among its platforms
GivesRecord(card) ==
    /\ card.raises = "none"
    /\ card.link # <<>>
    /\ card.score # <<>>
    /\ card.score # NA
    /\ {"pc", "playstation"} \cap BadgeNames(card) # {}

\* C9, amended: when the scrape returns normally, every card that has a
\* score label with a text other than "N/A", PC among its platforms, a
\* heading link, and none of whose queries raises, is among the records
\* returned, provided fewer than 60 cards that give a record precede it on
\* the page.
C9_FilterInclusionOfFirst60 ==
    (pc = "commit" /\ Last(results).outcome = "returned") =>
        \A i \in 1..Len(game_elements) :
            (/\ GivesRecord(game_elements[i])
             /\ "pc" \in BadgeNames(game_elements[i])
             /\ Cardinality({j \in 1..(i - 1) : GivesRecord(game_elements[j])})
                    < limit)
                => Included(game_elements[i], suggestions)

\* a PC card with a score was returned from a page that also holds a card
\* without a heading link
C9_Witness ==
    /\ pc = "commit"
    /\ Last(results).outcome = "returned"
    /\ CardPC \in Range(game_elements)
    /\ CardNoLink \in Range(game_elements)
    /\ Included(CardPC, suggestions)

\* the filter of the specification (section 4.4), on records
FilterOfRecords(records) ==
    LET scored == SelectSeq(records, LAMBDA s : s.metascore # NA)
        allowed == SelectSeq(scored,
                       LAMBDA s : {"PC", "PLAYSTATION"} \cap Range(s.platforms) # {})
    IN  SubSeq(allowed, 1, IF Len(allowed) < limit THEN Len(allowed) ELSE limit)

\* C10: the filter (drop score "N/A", drop no allowed platform, cut to the
\* maximum count) applied to the records a scrape returned gives those
\* same records.
C10_FilterIdempotent == FilterOfRecords(suggestions) = suggestions

\* the records returned are a list that was cut to the maximum count
C10_Witness ==
    /\ pc = "commit"
    /\ Len(suggestions_list) > limit
    /\ Len(suggestions) = limit

(***************************************************************************)
(* Slugs                                                                   *)
(***************************************************************************)
\* s without its leading characters of class
RECURSIVE DropRun(_, _)
DropRun(s, class) ==
    IF s # <<>> /\ Head(s) \in class THEN DropRun(Tail(s), class) ELSE s

\* every maximal run of characters of class in s replaced by one `by'
RECURSIVE ReplaceRuns(_, _, _)
ReplaceRuns(s, class, by) ==
    IF s = <<>> THEN <<>>
    ELSE IF Head(s) \in class
         THEN <<by>> \o ReplaceRuns(DropRun(s, class), class, by)
         ELSE <<Head(s)>> \o ReplaceRuns(Tail(s), class, by)

\* the slug of section 4.1: lower-case, runs of whitespace, apostrophes and
\* colons to one hyphen, then only [a-z0-9-] kept
SlugOfRuns(title) ==
    SelectSeq(ReplaceRuns(Lower(title), {"'", ":"} \cup Whitespace, "-"),
              LAMBDA c : c \in SlugChars)

\* what one character of a title contributes to the slug
SlugOfChar(c) ==
    IF c \in {"'", ":"} THEN <<>>
    ELSE IF c \in Whitespace THEN <<"-">>
    ELSE IF LowerChar(c) \in SlugChars THEN <<LowerChar(c)>>
    ELSE <<>>

RECURSIVE SlugByCharacter(_)
SlugByCharacter(title) ==
    IF title = <<>> THEN <<>>
    ELSE SlugOfChar(Head(title)) \o SlugByCharacter(Tail(title))

Scraping == pc \in ScrapePcs

\* C11 as stated: the slug of every title other than the special case is the
\* lower-cased title with each run of whitespace, apostrophes and colons
\* replaced by one hyphen and every other character outside [a-z0-9-] deleted
C11_SlugOfRuns ==
    (Scraping /\ Lower(game_title) # Forspoken)
        => url = SlugOfRuns(game_title)

\* C11 amended: the slug of every title other than the special case is the
\* title taken character by character: an apostrophe or colon gives nothing,
\* a whitespace character gives one hyphen, any other character gives its
\* lower-case form if that is in [a-z0-9-] and nothing otherwise; "Hollow
\* Knight" gives "hollow-knight" and "It Takes Two" gives "it-takes-two"
C11_SlugByCharacter ==
    /\ (Scraping /\ Lower(game_title) # Forspoken)
           => url = SlugByCharacter(game_title)
    /\ (Scraping /\ game_title = HollowKnight)
           => url = <<"h", "o", "l", "l", "o", "w", "-",
                      "k", "n", "i", "g", "h", "t">>
    /\ (Scraping /\ game_title = ItTakesTwo)
           => url = <<"i", "t", "-", "t", "a", "k", "e", "s", "-",
                      "t", "w", "o">>

\* the slug of a title made of a colon and a space is one hyphen
C11_Witness ==
    /\ Scraping
    /\ game_title = <<":", " ">>
    /\ url = <<"-">>

EqualIgnoringCase(a, b) ==
    /\ Len(a) = Len(b)
    /\ \A i \in 1..Len(a) : LowerChar(a[i]) = LowerChar(b[i])

\* C12: a title equal to "Forspoken" whatever its case resolves to
\* "project-athia" on every attempt, and the slug depends on the title only:
\* two resolutions of one title, in any state of the run, give one slug
C12_SpecialCaseAndDeterminism ==
    /\ (Scraping /\ EqualIgnoringCase(game_title, Forspoken))
           => url = ProjectAthia
    /\ \A i \in DOMAIN results :
           /\ EqualIgnoringCase(results[i].game, Forspoken)
                  => results[i].url = ProjectAthia
           /\ \A j \in DOMAIN results :
                  results[i].game = results[j].game
                      => results[i].url = results[j].url
           /\ (Scraping /\ results[i].game = game_title)
                  => results[i].url = url

\* the second scrape of "foRsPokEn" in one run, after the first one gave rows
C12_Witness ==
    /\ Scraping
    /\ idx = 2
    /\ game_title = <<"f", "o", "R", "s", "P", "o", "k", "E", "n">>
    /\ url = ProjectAthia
    /\ Len(results) = 1
    /\ results[1].game = game_title
    /\ results[1].url = ProjectAthia
    /\ Len(target.rows) > Len(base_rows)

(***************************************************************************)
(* Keys                                                                    *)
(***************************************************************************)
\* the characters of a title that are no apostrophe, colon or whitespace
Skeleton(title) ==
    SelectSeq(title, LAMBDA c : c \notin {"'", ":"} /\ c \notin Whitespace)

\* two titles that differ only in case, apostrophes, colons and whitespace
DifferOnlyInCaseAndPunctuation(a, b) ==
    EqualIgnoringCase(Skeleton(a), Skeleton(b))

\* C13: two titles that differ only in case, apostrophes, colons and
\* whitespace (leading, trailing or internal) have the same
\* normalize_game_name result, and a value that is no string normalizes to
\* the empty key
C13_KeyEquivalence ==
    keys # <<>> =>
        /\ \A i, j \in DOMAIN names :
               (/\ isinstance_str(names[i])
                /\ isinstance_str(names[j])
                /\ DifferOnlyInCaseAndPunctuation(names[i].value,
                                                  names[j].value))
                   => keys[i] = keys[j]
        /\ \A i \in DOMAIN names :
               ~isinstance_str(names[i]) => keys[i] = <<>>

\* " A", "a:" and None were normalized: the two strings have the key "a"
C13_Witness ==
    /\ names = <<Str(<<" ", "A">>), Str(<<"a", ":">>),
                 [type |-> "NoneType", value |-> <<>>]>>
    /\ keys = << <<"a">>, <<"a">>, <<>> >>

(***************************************************************************)
(* The input sheet and the two modes                                       *)
(***************************************************************************)
\* the plan was made and no append was refused
AfterPlan == pc \in {"planned", "loop", "commit", "done"} \cup ScrapePcs

\* C14: in delta mode row 1 of "Jogos", its header row, is never treated as
\* a game title: the pending list is made of the titles of rows 2 and below
\* only, so row 1 is never scraped
C14_InputHeaderExcluded ==
    (DeltaMode /\ AfterPlan /\ jogos.exists /\ jogos.rows # <<>>)
        => games_to_scrape =
               games_to_scrape_of(all_game_titles_of(Tail(jogos.rows)),
                                  processed_titles_set)

\* len(sys.argv) > 1
HasArgument == game_to_process_from_arg # <<>>

\* what single-game mode does with the title: it is the whole pending list,
\* "Jogos" was not read and no processed set was built, and no other title
\* and no second scrape of it is in the history of the run
OnlyGame(title) ==
    /\ games_to_scrape = <<title>>
    /\ all_game_titles = <<>>
    /\ processed_titles_set = {}
    /\ Len(results) <= 1
    /\ \A i \in DOMAIN results : results[i].game = title
    /\ pc \in {"commit", "done"} => Len(results) = 1
    /\ Scraping => (game_title = title /\ results = <<>>)

\* C15 as stated: whenever main is invoked with a positional argument, the
\* pending list is exactly that title, whatever the processed set and the
\* input sheet hold, and the title is scraped exactly once
C15_SingleGameMode ==
    (HasArgument /\ AfterPlan) => OnlyGame(game_to_process_from_arg[1])

\* C15 amended: the same for every positional argument that is not the
\* empty string
C15_SingleGameModeNonEmpty ==
    (Truthy(game_to_process_from_arg) /\ AfterPlan)
        => OnlyGame(game_to_process_from_arg[1])

\* a run for the argument "Ha" has ended after one scrape of it, over an
\* output sheet that already held a row of "Ha" and an input sheet with
\* other titles
C15_Witness ==
    /\ pc = "done"
    /\ game_to_process_from_arg = <<TitleHa>>
    /\ jogos.exists
    /\ jogos.rows = << <<TitleBo>> >>
    /\ normalize_game_name(TitleHa) \in processed_titles_set_of(base_rows)
    /\ Len(results) = 1
    /\ results[1].game = TitleHa

(***************************************************************************)
(* The output sheet                                                        *)
(***************************************************************************)
\* the rows below row 1 of "Jogos Similares" (<<>> if there is none)
DataRows(sheet) ==
    IF sheet.exists /\ Len(sheet.rows) > 1 THEN Tail(sheet.rows) ELSE <<>>

IsPrefix(s, t) == Len(s) <= Len(t) /\ SubSeq(t, 1, Len(s)) = s

\* C16: every data row of the output sheet stays where it is and as it is:
\* no step of a run, in either mode, removes the sheet or changes, moves or
\* deletes a row below row 1; a step only adds rows after the existing ones
C16_AppendOnly ==
    [][/\ target.exists => target'.exists
       /\ IsPrefix(DataRows(target), DataRows(target'))
       /\ Len(target.rows) <= Len(target'.rows)]_vars

\* a run has ended that rewrote cells A1:F1 of a seven-cell row 1 and
\* appended rows: the old row of "Ha" is still row 2
C16_Witness ==
    /\ pc = "done"
    /\ Len(target.rows) > 2
    /\ Len(target.rows[1]) = 7
    /\ SubSeq(target.rows[1], 1, 6) = expected_header
    /\ target.rows[2] = OldRow(TitleHa)
    /\ Len(base_rows) = 2

(***************************************************************************)
(* Errors of the run                                                       *)
(***************************************************************************)
BeforePlan == pc \in {"start", "plan"}

\* C17: when the credentials are missing or invalid, the spreadsheet cannot
\* be opened, or (no argument given) the input sheet is missing, main
\* catches the error at its top level and returns: the run goes no further
\* than planning, no step follows the catch, no game was scraped and the
\* output sheet is as it was
C17_FatalBeforeLoop ==
    /\ []((DeltaMode /\ ~jogos.exists) => pc \in {"start", "plan", "fatal"})
    /\ [](BeforePlan => (results = <<>> /\ idx = 0 /\ ~playwright))
    /\ [][(BeforePlan /\ pc' = "fatal")
             => /\ target' = target
                /\ results' = <<>>
                /\ idx' = 0
                /\ game_title' = <<>>
                /\ ~playwright']_vars
    /\ [][pc # "fatal"]_vars

\* the run ended at the top-level except over a missing "Jogos", with the
\* output sheet untouched
C17_Witness ==
    /\ pc = "fatal"
    /\ DeltaMode
    /\ ~jogos.exists
    /\ target = Sheet(<<expected_header, OldRow(TitleHa)>>)
    /\ results = <<>>
    /\ idx = 0

(***************************************************************************)
(* Pacing                                                                  *)
(***************************************************************************)
\* C18: between the end of one game (its commit, or its failure) and the
\* start of the next one the run performs an inter-game delay: the step that
\* starts the second or a later game of a run is taken from a pause, never
\* straight from the end of the game before
C18_InterGamePause ==
    [][(pc' = "launch" /\ idx > 1) => pc = "pause"]_vars

(***************************************************************************)
(* The records of one page                                                 *)
(***************************************************************************)
\* a query on the card raises, or it passes the filter and has no heading
\* link to read the title from
FailsToExtract(card) ==
    \/ card.raises # "none"
    \/ (card.link = <<>> /\ card.score # <<>> /\ card.score # NA
        /\ {"pc", "playstation"} \cap BadgeNames(card) # {})

\* the list holds the records of the cards, one each and in their order
RecordsOf(list, cards) ==
    /\ Len(list) = Len(cards)
    /\ \A k \in 1..Len(list) :
          /\ cards[k].link # <<>>
          /\ list[k].title = <<cards[k].link[1]>>
          /\ list[k].url = <<"https://rawg.io", cards[k].link[2]>>
          /\ list[k].image = cards[k].image
          /\ list[k].metascore = cards[k].score

\* C19: a failure while extracting a field of one card skips that card and
\* no other: the records built from a page are those of its cards that pass
\* the filter and do not fail, one each and in page order, and a scrape that
\* returns gives records whenever the page has such a card
C19_PerCardIsolation ==
    (pc \in {"close", "commit"} /\ game_elements # <<>>) =>
        /\ RecordsOf(suggestions_list, SelectSeq(game_elements, GivesRecord))
        /\ \A i \in 1..Len(game_elements) :
               FailsToExtract(game_elements[i]) => ~GivesRecord(game_elements[i])
        /\ (/\ pc = "commit"
            /\ Last(results).outcome = "returned"
            /\ \E i \in 1..Len(game_elements) : GivesRecord(game_elements[i]))
               => (suggestions # <<>> /\ suggestions[1] = suggestions_list[1])

\* a page whose first card raises on its image and whose second card is a
\* PC card with a score: the scrape returned the record of the second
C19_Witness ==
    /\ pc = "commit"
    /\ Last(results).outcome = "returned"
    /\ Len(game_elements) >= 2
    /\ game_elements[1] = CardStale
    /\ game_elements[2] = CardPC
    /\ suggestions # <<>>
    /\ suggestions[1].title = <<"Celeste">>

\* the first n elements of s, or all of s if it has fewer
FirstOf(s, n) ==
    [i \in 1..(IF n <= Len(s) THEN n ELSE Len(s)) |-> s[i]]

\* the card passes the score and platform rules
PassesRules(card) ==
    /\ card.score # <<>>
    /\ card.score # NA
    /\ {"pc", "playstation"} \cap BadgeNames(card) # {}

\* what the commit of a game does to the sheet: one batch of at most 60
\* rows, the rows of the records returned, or nothing if the append is
\* refused
BatchOfRecords ==
    pc = "commit" =>
        /\ Len(target'.rows) - Len(target.rows) <= limit
        /\ pc' = "loop" =>
               target'.rows =
                   target.rows \o rows_to_append_of(games_to_scrape[idx],
                                                    suggestions)
        /\ pc' = "fatal" => target' = target

\* C20 as stated: the records returned for a game are those of the first
\* min(k, 60) of the k cards that pass the score and platform rules, in page
\* order; a batch has at most 60 rows; a game with no passing card appends
\* no batch and leaves the output sheet unchanged
C20_TruncationAndOrder ==
    /\ [](pc = "commit" =>
             RecordsOf(suggestions,
                       FirstOf(SelectSeq(game_elements, PassesRules),
                               limit)))
    /\ [][BatchOfRecords]_vars
    /\ [][(pc = "commit" /\ SelectSeq(game_elements, PassesRules) = <<>>)
             => target' = target]_vars

\* C20 amended: the records a scrape returns are those of the first
\* min(k, 60) of the k cards that pass the score and platform rules, have a
\* heading link and raise on no query, in page order, and a scrape that
\* fails returns none; a batch has at most 60 rows; a game with no such
\* card appends no batch and leaves the output sheet unchanged
C20_TruncationAndOrderOfRecords ==
    /\ []((pc = "commit" /\ Last(results).outcome = "returned") =>
             RecordsOf(suggestions,
                       FirstOf(SelectSeq(game_elements, GivesRecord),
                               limit)))
    /\ []((pc = "commit" /\ Last(results).outcome = "raised") =>
             suggestions = <<>>)
    /\ [][BatchOfRecords]_vars
    /\ [][(pc = "commit" /\ SelectSeq(game_elements, GivesRecord) = <<>>)
             => target' = target]_vars

\* a scrape returned the first 60 records of a page of PC and PLAYSTATION
\* cards in turn that gave more than 60
C20_Witness ==
    /\ pc = "commit"
    /\ Last(results).outcome = "returned"
    /\ Len(suggestions) = limit
    /\ Len(suggestions_list) > limit
    /\ game_elements[1] = CardPC
    /\ game_elements[2] = CardPSXbox
    /\ suggestions[2].title = <<"Journey">>

=============================================================================
